---- MODULE Spec2Model ----
(***************************************************************************)
(* UPlanet Vitrine - Cover Flow front end (carousel.js, two variants).     *)
(* Model of the gesture-to-action state machine, the overlay handling,     *)
(* the navigation index and the WebSocket / HTTP-polling transport.        *)
(*                                                                         *)
(* The JavaScript handlers run to completion on one event loop, so every   *)
(* handler is one action.  A handler is a sequence of calls that mutate    *)
(* the global `state` object and the DOM; each called function is modelled *)
(* as an operator from a snapshot record to a snapshot record, and the     *)
(* action commits the record the handler ends with.                        *)
(***************************************************************************)
EXTENDS Integers, Sequences, FiniteSets

\* ---------------------------------------------------------------- bounds
MaxItems == 3        \* longest item list the content feed returns
MaxPolls == 2        \* poll loops (request in flight or timer pending) alive at once
MaxCaptures == 2     \* capture requests awaiting their response at once
MaxDark == 1         \* largest time_until_dark a frame carries
MaxMoves == 2        \* changes of the sensed action the sensing service goes through
MaxSyncs == 2        \* position-sync requests awaiting their outcome at once

\* ------------------------------------------------------ program constants
QR_DISPLAY_TIME == 10
DemoCount == 2

\* ------------------------------------------------------------- variables
VARIABLES
    \* the `state` object
    events,            \* state.events: the item list (items are named 1..n)
    currentIndex,      \* state.currentIndex (0-based)
    showDetail,        \* state.showDetail
    showQR,            \* state.showQR
    qrCountdown,       \* state.qrCountdown
    qrInterval,        \* state.qrInterval is a timer handle (TRUE) or null (FALSE)
    lastAction,        \* state.lastAction
    lightMode,         \* state.lightMode
    timeUntilDark,     \* state.timeUntilDark
    useWebSocket,      \* state.useWebSocket
    faceDetected,      \* state.faceDetected
    faceCount,         \* state.faceCount
    \* the DOM
    bannerVisible,     \* #scroll-banner has class 'visible'
    captureVisible,    \* #capture-progress has class 'visible'
    openHandVisible,   \* #open-hand-progress has class 'visible'
    gestureStatus,     \* what the gesture status text shows
    \* the event loop and the network
    started,           \* DOMContentLoaded has run startGesturePolling
    configLoaded,      \* loadConfig has completed
    socket,            \* the Socket.IO client: "null", "connecting", "connected",
                       \* "reconnecting" or "closed"
    pollInFlight,      \* poll() activations awaiting their fetch
    pollTimers,        \* pending setTimeout(poll, POLL_INTERVAL) timers
    captureInFlight,   \* capturePhoto() activations awaiting their fetch
    qrTimers,          \* live setInterval countdown timers
    lastSync,          \* index carried by the last /api/set_index request, -1 if none
    syncPending,       \* POST /api/set_index requests awaiting their outcome:
                       \* how many carry each index
    remoteIndex,       \* the index the server holds, -1 before the first request
                       \* reaches it
    syncLost,          \* a POST /api/set_index request has failed
    qrTicks,           \* countdown ticks fired since showQR last ran
    failedOver,        \* a disconnect or connect_error event has been handled
    \* the sensing service
    source,            \* the action the service senses now
    sourceGen,         \* how many times the sensed action has changed
    snapshots,         \* answers to GET /api/gesture on their way to the page:
                       \* how many carry each action, sensed after each change
    handledGen,        \* the latest sensing handleGesture has seen (as sourceGen),
                       \* -1 before the first frame of the service
    heldDispatched,    \* the action the service senses has been dispatched
                       \* since the service began to sense it
    \* static/shop_carousel.js run beside this page on the same inputs
    twin,              \* its `state` object, its timers and its requests
    \* observation of the handlers
    lastFrame,         \* action of the last frame handled, "nil" before the first
    \* observation of the last step alone
    frameSeen,         \* "no": no frame handled; else whether the frame's action is
                       \* the "same" as the previous frame's or has "changed"
    dispatched,        \* switch case the step entered, "none" if none
    deliveredBy,       \* transport that handed the frame over, "none" if no frame
    deliveredInPush,   \* state.useWebSocket when the frame was handed over
    syncs,             \* POST /api/set_index requests the step issued
    themeToggled,      \* updateThemeMode switched the mode and the banner
    frameGen,          \* sourceGen when the service sensed the frame the step
                       \* handled, -1 if it handled none of the service's
    frameIn            \* the frame the step handled, NoFrame if none

vars == <<events, currentIndex, showDetail, showQR, qrCountdown, qrInterval,
          lastAction, lightMode, timeUntilDark, useWebSocket, faceDetected,
          faceCount, bannerVisible, captureVisible, openHandVisible,
          gestureStatus, started, configLoaded, socket, pollInFlight,
          pollTimers, captureInFlight, qrTimers, lastSync, qrTicks, failedOver,
          source, sourceGen, snapshots, handledGen, heldDispatched, syncPending,
          remoteIndex, syncLost, twin, lastFrame,
          frameSeen, dispatched, deliveredBy, deliveredInPush, syncs, frameGen,
          themeToggled, frameIn>>

\* what frameIn holds after a step that handled no frame
NoFrame ==
    [action |-> "none", is_fist |-> FALSE, hand_detected |-> FALSE,
     light_mode |-> FALSE, time_until_dark |-> 0, is_thumbs_up |-> FALSE,
     thumbs_up_progress |-> 0, is_open_hand |-> FALSE, open_hand_progress |-> 0,
     face_detected |-> FALSE, face_count |-> 0]

\* static/shop_carousel.js after its script has loaded
TwinInit ==
    [events |-> <<>>, currentIndex |-> 0, showDetail |-> FALSE, showQR |-> FALSE,
     qrCountdown |-> 0, qrInterval |-> FALSE, lastAction |-> "idle",
     lightMode |-> FALSE, timeUntilDark |-> 0, captureVisible |-> FALSE,
     openHandVisible |-> FALSE, gestureStatus |-> "init", captureInFlight |-> 0,
     qrTimers |-> 0, qrTicks |-> 0, lastSync |-> -1, syncs |-> 0,
     dispatched |-> "none"]

\* The snapshot a handler of the static variant starts from.
TwinCur == [twin EXCEPT !.syncs = 0, !.dispatched = "none"]

\* The snapshot a handler starts from; the observations of the step start blank.
Cur ==
    [events |-> events, currentIndex |-> currentIndex, showDetail |-> showDetail,
     showQR |-> showQR, qrCountdown |-> qrCountdown, qrInterval |-> qrInterval,
     lastAction |-> lastAction, lightMode |-> lightMode,
     timeUntilDark |-> timeUntilDark, useWebSocket |-> useWebSocket,
     faceDetected |-> faceDetected, faceCount |-> faceCount,
     bannerVisible |-> bannerVisible, captureVisible |-> captureVisible,
     openHandVisible |-> openHandVisible, gestureStatus |-> gestureStatus,
     started |-> started, configLoaded |-> configLoaded, socket |-> socket,
     pollInFlight |-> pollInFlight, pollTimers |-> pollTimers,
     captureInFlight |-> captureInFlight, qrTimers |-> qrTimers,
     lastSync |-> lastSync, qrTicks |-> qrTicks, failedOver |-> failedOver,
     source |-> source, sourceGen |-> sourceGen, snapshots |-> snapshots,
     handledGen |-> handledGen, frameGen |-> -1, syncs |-> 0,
     themeToggled |-> FALSE,
     syncPending |-> syncPending, remoteIndex |-> remoteIndex,
     syncLost |-> syncLost, twin |-> twin,
     heldDispatched |-> heldDispatched, lastFrame |-> lastFrame,
     frameSeen |-> "no",
     dispatched |-> "none", deliveredBy |-> "none", deliveredInPush |-> FALSE,
     frameIn |-> NoFrame]

Commit(r) ==
    /\ events' = r.events
    /\ currentIndex' = r.currentIndex
    /\ showDetail' = r.showDetail
    /\ showQR' = r.showQR
    /\ qrCountdown' = r.qrCountdown
    /\ qrInterval' = r.qrInterval
    /\ lastAction' = r.lastAction
    /\ lightMode' = r.lightMode
    /\ timeUntilDark' = r.timeUntilDark
    /\ useWebSocket' = r.useWebSocket
    /\ faceDetected' = r.faceDetected
    /\ faceCount' = r.faceCount
    /\ bannerVisible' = r.bannerVisible
    /\ captureVisible' = r.captureVisible
    /\ openHandVisible' = r.openHandVisible
    /\ gestureStatus' = r.gestureStatus
    /\ started' = r.started
    /\ configLoaded' = r.configLoaded
    /\ socket' = r.socket
    /\ pollInFlight' = r.pollInFlight
    /\ pollTimers' = r.pollTimers
    /\ captureInFlight' = r.captureInFlight
    /\ qrTimers' = r.qrTimers
    /\ lastSync' = r.lastSync
    /\ qrTicks' = r.qrTicks
    /\ failedOver' = r.failedOver
    /\ source' = r.source
    /\ sourceGen' = r.sourceGen
    /\ snapshots' = r.snapshots
    /\ handledGen' = r.handledGen
    /\ frameGen' = r.frameGen
    /\ syncs' = r.syncs
    /\ themeToggled' = r.themeToggled
    /\ syncPending' = r.syncPending
    /\ remoteIndex' = r.remoteIndex
    /\ syncLost' = r.syncLost
    /\ twin' = r.twin
    /\ heldDispatched' = r.heldDispatched
    /\ lastFrame' = r.lastFrame
    /\ frameSeen' = r.frameSeen
    /\ dispatched' = r.dispatched
    /\ deliveredBy' = r.deliveredBy
    /\ deliveredInPush' = r.deliveredInPush
    /\ frameIn' = r.frameIn

\* The resources the bounds cap.
WithinBounds(r) ==
    /\ r.pollInFlight + r.pollTimers <= MaxPolls
    /\ r.captureInFlight <= MaxCaptures

Max(a, b) == IF a >= b THEN a ELSE b
Min(a, b) == IF a <= b THEN a ELSE b

ItemList(n) == [i \in 1..n |-> i]

\* state.events[i] is an item (truthy) for a 0-based i
HasEvent(s, i) == (i + 1) \in DOMAIN s.events

\* ------------------------------------------------------------ gesture frames
Actions == {"none", "nav_left", "nav_right", "detail", "detail_close", "capture"}
Commands == Actions \ {"none"}

\* A hold progress is 0 or positive (1); a frame with a face counts one face.
Frame(a, fist, hand, light, dark, thumbs, tprog, open, oprog, face) ==
    [action |-> a, is_fist |-> fist, hand_detected |-> hand, light_mode |-> light,
     time_until_dark |-> dark, is_thumbs_up |-> thumbs,
     thumbs_up_progress |-> tprog, is_open_hand |-> open,
     open_hand_progress |-> oprog, face_detected |-> face,
     face_count |-> IF face THEN 1 ELSE 0]

\* frames that exercise the action switch and the fist override
UIFrames ==
    {Frame(a, fist, FALSE, FALSE, 0, FALSE, 0, FALSE, 0, FALSE) :
        a \in Actions, fist \in BOOLEAN}

\* frames that exercise delivery over the two transports
TransportFrames ==
    {Frame(a, FALSE, FALSE, FALSE, 0, FALSE, 0, FALSE, 0, FALSE) :
        a \in {"none", "nav_left"}}

\* frames that navigate
NavFrames ==
    {Frame(a, FALSE, FALSE, FALSE, 0, FALSE, 0, FALSE, 0, FALSE) :
        a \in {"none", "nav_left", "nav_right"}}

\* the actions the sensing service goes through: a gesture made and released
SourceActions == {"none", "nav_left"}

\* the frame the service yields while it senses action a
SourceFrame(a) == Frame(a, FALSE, FALSE, FALSE, 0, FALSE, 0, FALSE, 0, FALSE)

\* answers to GET /api/gesture on their way to the page
SnapshotKeys == SourceActions \X (0..MaxMoves)

RECURSIVE SumOver(_, _)
SumOver(f, keys) ==
    IF keys = {} THEN 0
    ELSE LET k == CHOOSE x \in keys : TRUE
         IN f[k] + SumOver(f, keys \ {k})

InTransit(s) == SumOver(s.snapshots, SnapshotKeys)

\* the indexes a position-sync request can carry
SyncIndexes == 0..Max(MaxItems, DemoCount) - 1

PendingSyncs(s) == SumOver(s.syncPending, SyncIndexes)

\* the requests a handler has issued are on their way
Sent(r) ==
    IF r.syncs > 0 THEN [r EXCEPT !.syncPending[r.lastSync] = @ + r.syncs] ELSE r

\* mutant: a failed request puts the index back where the server has it
syncFailedRollback(s, i) ==
    [s EXCEPT !.syncPending[i] = @ - 1, !.syncLost = TRUE,
              !.currentIndex = IF s.remoteIndex # -1 THEN s.remoteIndex ELSE 0]

\* the .catch of the request's promise: the error is logged
syncFailed(s, i) == [s EXCEPT !.syncPending[i] = @ - 1, !.syncLost = TRUE]

\* the server has stored the index; the request's promise resolves, with no
\* handler attached
syncAcked(s, i) == [s EXCEPT !.syncPending[i] = @ - 1, !.remoteIndex = i]

\* handleGesture has been given a frame the service sensed at generation n
Stamp(r, n) == [r EXCEPT !.frameGen = n, !.handledGen = Max(@, n)]

\* frames that exercise the theme: hand presence, the server's hint and the
\* time left before dark
ThemeFrames ==
    {Frame("none", FALSE, hand, light, dark, FALSE, 0, FALSE, 0, FALSE) :
        hand \in BOOLEAN, light \in BOOLEAN, dark \in 0..MaxDark}

\* frames for the static variant: the theme fields, and the detail panel
\* opened and closed
StaticFrames ==
    {Frame(a, fist, hand, light, dark, FALSE, 0, FALSE, 0, FALSE) :
        a \in {"none", "detail"}, fist \in BOOLEAN, hand \in BOOLEAN,
        light \in BOOLEAN, dark \in 0..MaxDark}

\* frames that open and close the overlays
OverlayFrames ==
    {Frame(a, fist, FALSE, FALSE, 0, FALSE, 0, FALSE, 0, FALSE) :
        a \in {"none", "detail", "detail_close", "capture"}, fist \in BOOLEAN}

\* frames of commands an open overlay refuses, held and released
DropFrames ==
    {Frame(a, FALSE, FALSE, FALSE, 0, FALSE, 0, FALSE, 0, FALSE) :
        a \in {"none", "nav_left", "detail", "capture"}}

\* frames given to both variants: every action, the fist, and the hand that
\* switches the theme of one variant only
TwinFrames ==
    {Frame(a, fist, hand, FALSE, 0, FALSE, 0, FALSE, 0, FALSE) :
        a \in Actions, fist \in BOOLEAN, hand \in BOOLEAN}

\* frames that exercise the two hold-progress indicators
ProgressFrames ==
    {Frame(a, FALSE, FALSE, FALSE, 0, thumbs, tprog, open, oprog, FALSE) :
        a \in {"none", "detail", "capture"}, thumbs \in BOOLEAN, tprog \in 0..1,
        open \in BOOLEAN, oprog \in 0..1}

\* frames that request a capture, or release the gesture
CaptureFrames ==
    {Frame(a, FALSE, FALSE, FALSE, 0, thumbs, 0, FALSE, 0, FALSE) :
        a \in {"none", "capture"}, thumbs \in BOOLEAN}

\* every frame shape
Frames ==
    {Frame(a, fist, hand, light, dark, thumbs, tprog, open, oprog, face) :
        a \in Actions, fist \in BOOLEAN, hand \in BOOLEAN, light \in BOOLEAN,
        dark \in 0..MaxDark, thumbs \in BOOLEAN, tprog \in 0..1,
        open \in BOOLEAN, oprog \in 0..1, face \in BOOLEAN}

\* ------------------------------------------------------------ scroll banner
\* mutant: the banner follows the request whatever overlay is open
updateScrollBannerAnyway(s, show) ==
    [s EXCEPT !.bannerVisible = show]

updateScrollBanner(s, show) ==
    [s EXCEPT !.bannerVisible = show /\ ~s.showDetail /\ ~s.showQR]

\* ---------------------------------------------------------------- navigation
\* mutant: the lower clamp is missing
navigateToNoFloor(s, index) ==
    LET maxIndex == Len(s.events) - 1
        idx == Min(index, maxIndex)
    IN [s EXCEPT !.currentIndex = idx, !.lastSync = idx, !.syncs = @ + 1]

\* mutant: the index is stored and nothing is sent
navigateToSilent(s, index) ==
    LET maxIndex == Len(s.events) - 1
        idx == Max(0, Min(index, maxIndex))
    IN [s EXCEPT !.currentIndex = idx]

navigateTo(s, index) ==
    LET maxIndex == Len(s.events) - 1
        idx == Max(0, Min(index, maxIndex))
    IN [s EXCEPT !.currentIndex = idx, !.lastSync = idx, !.syncs = @ + 1]

navigateLeft(s) ==
    IF s.currentIndex > 0 THEN navigateTo(s, s.currentIndex - 1) ELSE s

navigateRight(s) ==
    IF s.currentIndex < Len(s.events) - 1 THEN navigateTo(s, s.currentIndex + 1) ELSE s

\* --------------------------------------------------------------- theme mode
\* mutant: the hint is used even when time_until_dark has run out
updateThemeModeNoExpiry(s, light, dark, handDetected) ==
    LET effectiveLightMode == IF handDetected THEN TRUE ELSE light
        s1 == IF effectiveLightMode # s.lightMode
              THEN updateScrollBanner([s EXCEPT !.lightMode = effectiveLightMode],
                                      ~effectiveLightMode)
              ELSE s
    IN [s1 EXCEPT !.timeUntilDark = dark]

\* mutant: the time left is kept when the frame carries less
updateThemeModeKeepsTime(s, light, dark, handDetected) ==
    LET effectiveLightMode ==
            IF handDetected THEN TRUE ELSE (IF dark > 0 THEN light ELSE FALSE)
        s1 == IF effectiveLightMode # s.lightMode
              THEN updateScrollBanner([s EXCEPT !.lightMode = effectiveLightMode,
                                                !.themeToggled = TRUE],
                                      ~effectiveLightMode)
              ELSE s
    IN [s1 EXCEPT !.timeUntilDark = Max(@, dark)]

updateThemeMode(s, light, dark, handDetected) ==
    LET effectiveLightMode ==
            IF handDetected THEN TRUE ELSE (IF dark > 0 THEN light ELSE FALSE)
        s1 == IF effectiveLightMode # s.lightMode
              THEN updateScrollBanner([s EXCEPT !.lightMode = effectiveLightMode,
                                                !.themeToggled = TRUE],
                                      ~effectiveLightMode)
              ELSE s
    IN [s1 EXCEPT !.timeUntilDark = dark]

updateFaceDetection(s, face, count) ==
    [s EXCEPT !.faceDetected = face, !.faceCount = count]

updateGestureStatus(s) == [s EXCEPT !.gestureStatus = "gesture"]

\* ------------------------------------------------------------- detail panel
\* event is an item of the list, or 0 for undefined
EventAt(s, i) == IF HasEvent(s, i) THEN s.events[i + 1] ELSE 0

ShowDetail(s, event) ==
    IF event = 0 THEN s
    ELSE updateScrollBanner([s EXCEPT !.showDetail = TRUE], FALSE)

\* mutant: closing the panel closes the Capture overlay with it
hideDetailClosesBoth(s) ==
    IF ~s.showDetail THEN s
    ELSE LET s1 == [s EXCEPT !.showDetail = FALSE, !.showQR = FALSE]
         IN IF ~s1.lightMode THEN updateScrollBanner(s1, TRUE) ELSE s1

hideDetail(s) ==
    IF ~s.showDetail THEN s
    ELSE LET s1 == [s EXCEPT !.showDetail = FALSE]
         IN IF ~s1.lightMode THEN updateScrollBanner(s1, TRUE) ELSE s1

\* ------------------------------------------------------------ photo capture
\* capturePhoto up to its await: the request is sent
capturePhoto(s) ==
    IF s.showQR THEN s ELSE [s EXCEPT !.captureInFlight = @ + 1]

\* mutant: the overlay opens with the countdown it was left with
ShowQRStaleCountdown(s) ==
    LET s1 == updateScrollBanner([s EXCEPT !.showQR = TRUE], FALSE)
        cleared == IF s1.qrInterval THEN s1.qrTimers - 1 ELSE s1.qrTimers
    IN [s1 EXCEPT !.qrTimers = cleared + 1, !.qrInterval = TRUE, !.qrTicks = 0]

ShowQR(s) ==
    LET s1 == updateScrollBanner(
                  [s EXCEPT !.showQR = TRUE, !.qrCountdown = QR_DISPLAY_TIME], FALSE)
        cleared == IF s1.qrInterval THEN s1.qrTimers - 1 ELSE s1.qrTimers
    IN [s1 EXCEPT !.qrTimers = cleared + 1, !.qrInterval = TRUE, !.qrTicks = 0]

\* mutant: the countdown timer is left to expire
hideQRTimerLeft(s) ==
    LET s1 == [s EXCEPT !.showQR = FALSE]
    IN IF ~s1.lightMode THEN updateScrollBanner(s1, TRUE) ELSE s1

hideQR(s) ==
    LET s1 == [s EXCEPT !.showQR = FALSE]
        s2 == IF ~s1.lightMode THEN updateScrollBanner(s1, TRUE) ELSE s1
    IN IF s2.qrInterval
       THEN [s2 EXCEPT !.qrTimers = @ - 1, !.qrInterval = FALSE]
       ELSE s2

\* mutant: the overlay opens whatever the answer says
captureDoneAlwaysShows(s, success) ==
    ShowQR([s EXCEPT !.captureInFlight = @ - 1])

\* capturePhoto after its await: the response has arrived
captureDone(s, success) ==
    LET s1 == [s EXCEPT !.captureInFlight = @ - 1]
    IN IF success THEN ShowQR(s1) ELSE s1

\* mutant: the overlay closes one tick after the countdown shows 0
qrTickLate(s) ==
    LET s1 == [s EXCEPT !.qrCountdown = @ - 1, !.qrTicks = @ + 1]
    IN IF s1.qrCountdown < 0 THEN hideQR(s1) ELSE s1

\* the setInterval callback of showQR
qrTick(s) ==
    LET s1 == [s EXCEPT !.qrCountdown = @ - 1, !.qrTicks = @ + 1]
    IN IF s1.qrCountdown <= 0 THEN hideQR(s1) ELSE s1

\* ------------------------------------------------------------ handleGesture
\* mutant: the switch runs on every frame
EdgeDetectedAlways(s, g) == TRUE

EdgeDetected(s, g) == g.action # s.lastAction

\* mutant: the navigation cases do not look at the overlays
DispatchActionNavUnguarded(s, a) ==
    CASE a = "nav_left" -> navigateRight(s)
      [] a = "nav_right" -> navigateLeft(s)
      [] a = "detail" ->
            IF ~s.showQR /\ HasEvent(s, s.currentIndex)
            THEN ShowDetail(s, EventAt(s, s.currentIndex)) ELSE s
      [] a = "detail_close" -> hideDetail(s)
      [] a = "capture" -> IF ~s.showQR THEN capturePhoto(s) ELSE s
      [] OTHER -> s

DispatchAction(s, a) ==
    CASE a = "nav_left" ->
            IF ~s.showDetail /\ ~s.showQR THEN navigateRight(s) ELSE s
      [] a = "nav_right" ->
            IF ~s.showDetail /\ ~s.showQR THEN navigateLeft(s) ELSE s
      [] a = "detail" ->
            IF ~s.showQR /\ HasEvent(s, s.currentIndex)
            THEN ShowDetail(s, EventAt(s, s.currentIndex)) ELSE s
      [] a = "detail_close" -> hideDetail(s)
      [] a = "capture" -> IF ~s.showQR THEN capturePhoto(s) ELSE s
      [] OTHER -> s

\* mutant: a fist closes whichever overlay is open
FistOverrideClosesCapture(s, g) ==
    IF ~g.is_fist THEN s
    ELSE IF s.showDetail THEN hideDetail(s)
    ELSE IF s.showQR THEN hideQR(s)
    ELSE s

\* mutant: a fist closes the panel only on an edge of the action
FistOverrideOnEdge(s, g) ==
    IF g.is_fist /\ s.showDetail /\ s.dispatched # "none" THEN hideDetail(s) ELSE s

FistOverride(s, g) ==
    IF g.is_fist /\ s.showDetail THEN hideDetail(s) ELSE s

ProgressVisuals(s, g) ==
    IF s.showQR THEN s
    ELSE [s EXCEPT
            !.openHandVisible =
                g.is_open_hand /\ ~s.showDetail /\ g.open_hand_progress > 0,
            !.captureVisible = g.is_thumbs_up /\ g.thumbs_up_progress > 0]

\* mutant: a command an open overlay refuses is kept for the next frame
handleGestureDeferring(s, g) ==
    LET s1 == updateGestureStatus(s)
        s2 == updateFaceDetection(s1, g.face_detected, g.face_count)
        s3 == updateThemeMode(s2, g.light_mode, g.time_until_dark, g.hand_detected)
        refused == \/ g.action \in {"nav_left", "nav_right"} /\ (s3.showDetail \/ s3.showQR)
                   \/ g.action \in {"detail", "capture"} /\ s3.showQR
        s4 == IF EdgeDetected(s3, g) /\ ~refused
              THEN DispatchAction(
                       [s3 EXCEPT !.lastAction = g.action,
                                  !.dispatched = IF g.action \in Commands
                                                 THEN g.action ELSE "none"],
                       g.action)
              ELSE s3
        s5 == FistOverride(s4, g)
    IN ProgressVisuals(s5, g)

handleGesture(s, g) ==
    LET s1 == updateGestureStatus(s)
        s2 == updateFaceDetection(s1, g.face_detected, g.face_count)
        s3 == updateThemeMode(s2, g.light_mode, g.time_until_dark, g.hand_detected)
        s4 == IF EdgeDetected(s3, g)
              THEN DispatchAction(
                       [s3 EXCEPT !.lastAction = g.action,
                                  !.dispatched = IF g.action \in Commands
                                                 THEN g.action ELSE "none"],
                       g.action)
              ELSE s3
        s5 == FistOverride(s4, g)
    IN ProgressVisuals(s5, g)

\* ------------------------------------- handleGesture, static/shop_carousel.js
\* The static variant has no banner and no face statistics, and its theme
\* follows the server's light_mode alone.
updateThemeModeStatic(s, light, dark) ==
    LET s1 == IF light # s.lightMode THEN [s EXCEPT !.lightMode = light] ELSE s
    IN [s1 EXCEPT !.timeUntilDark = dark]

ShowDetailStatic(s, event) ==
    IF event = 0 THEN s ELSE [s EXCEPT !.showDetail = TRUE]

hideDetailStatic(s) ==
    IF ~s.showDetail THEN s ELSE [s EXCEPT !.showDetail = FALSE]

\* the static variant has no banner to restore
ShowQRStatic(s) ==
    LET s1 == [s EXCEPT !.showQR = TRUE, !.qrCountdown = QR_DISPLAY_TIME]
        cleared == IF s1.qrInterval THEN s1.qrTimers - 1 ELSE s1.qrTimers
    IN [s1 EXCEPT !.qrTimers = cleared + 1, !.qrInterval = TRUE, !.qrTicks = 0]

hideQRStatic(s) ==
    LET s1 == [s EXCEPT !.showQR = FALSE]
    IN IF s1.qrInterval
       THEN [s1 EXCEPT !.qrTimers = @ - 1, !.qrInterval = FALSE]
       ELSE s1

captureDoneStatic(s, success) ==
    LET s1 == [s EXCEPT !.captureInFlight = @ - 1]
    IN IF success THEN ShowQRStatic(s1) ELSE s1

qrTickStatic(s) ==
    LET s1 == [s EXCEPT !.qrCountdown = @ - 1, !.qrTicks = @ + 1]
    IN IF s1.qrCountdown <= 0 THEN hideQRStatic(s1) ELSE s1

\* mutant: the static variant navigates the way the action is named
DispatchActionStaticUninverted(s, a) ==
    CASE a = "nav_left" ->
            IF ~s.showDetail /\ ~s.showQR THEN navigateLeft(s) ELSE s
      [] a = "nav_right" ->
            IF ~s.showDetail /\ ~s.showQR THEN navigateRight(s) ELSE s
      [] a = "detail" ->
            IF ~s.showQR /\ HasEvent(s, s.currentIndex)
            THEN ShowDetailStatic(s, EventAt(s, s.currentIndex)) ELSE s
      [] a = "detail_close" -> hideDetailStatic(s)
      [] a = "capture" -> IF ~s.showQR THEN capturePhoto(s) ELSE s
      [] OTHER -> s

DispatchActionStatic(s, a) ==
    CASE a = "nav_left" ->
            IF ~s.showDetail /\ ~s.showQR THEN navigateRight(s) ELSE s
      [] a = "nav_right" ->
            IF ~s.showDetail /\ ~s.showQR THEN navigateLeft(s) ELSE s
      [] a = "detail" ->
            IF ~s.showQR /\ HasEvent(s, s.currentIndex)
            THEN ShowDetailStatic(s, EventAt(s, s.currentIndex)) ELSE s
      [] a = "detail_close" -> hideDetailStatic(s)
      [] a = "capture" -> IF ~s.showQR THEN capturePhoto(s) ELSE s
      [] OTHER -> s

handleGestureStatic(s, g) ==
    LET s1 == updateGestureStatus(s)
        s2 == updateThemeModeStatic(s1, g.light_mode, g.time_until_dark)
        s3 == IF EdgeDetected(s2, g)
              THEN DispatchActionStatic(
                       [s2 EXCEPT !.lastAction = g.action,
                                  !.dispatched = IF g.action \in Commands
                                                 THEN g.action ELSE "none"],
                       g.action)
              ELSE s2
        s4 == IF g.is_fist /\ s3.showDetail THEN hideDetailStatic(s3) ELSE s3
    IN ProgressVisuals(s4, g)

\* a transport hands frame g to the static variant's handleGesture
DeliverStatic(s, g, by) ==
    [handleGestureStatic(s, g) EXCEPT
        !.lastFrame = g.action,
        !.frameSeen = IF g.action = s.lastFrame THEN "same" ELSE "changed",
        !.deliveredBy = by,
        !.deliveredInPush = s.useWebSocket,
        !.frameIn = g]

\* a transport hands frame g to handleGesture
Deliver(s, g, by) ==
    [handleGesture(s, g) EXCEPT
        !.heldDispatched = @ \/ (g.action = s.source /\ EdgeDetected(s, g)
                                                   /\ g.action \in Commands),
        !.lastFrame = g.action,
        !.frameSeen = IF g.action = s.lastFrame THEN "same" ELSE "changed",
        !.deliveredBy = by,
        !.deliveredInPush = s.useWebSocket,
        !.frameIn = g]

\* ---------------------------------------------------------------- transport
\* mutant: a timer that fires does not read the flag
pollEnterUnchecked(s) == [s EXCEPT !.pollInFlight = @ + 1]

\* poll() up to its await: the flag is read, then the request is sent
pollEnter(s) ==
    IF s.useWebSocket THEN s ELSE [s EXCEPT !.pollInFlight = @ + 1]

\* poll() after the try block: the next tick is scheduled
pollReschedule(s) ==
    IF ~s.useWebSocket THEN [s EXCEPT !.pollTimers = @ + 1] ELSE s

\* poll() resumed by a response
pollResponse(s, g) ==
    pollReschedule(Deliver([s EXCEPT !.pollInFlight = @ - 1], g, "poll"))

\* mutant: a failed request ends the loop
pollFailureStops(s) ==
    [s EXCEPT !.pollInFlight = @ - 1, !.gestureStatus = "mouse"]

\* poll() resumed by a network or parse error
pollFailure(s) ==
    pollReschedule([s EXCEPT !.pollInFlight = @ - 1, !.gestureStatus = "mouse"])

\* mutant: the first request waits for a poll interval
startPollingFallbackDeferred(s) ==
    IF s.useWebSocket THEN s ELSE [s EXCEPT !.pollTimers = @ + 1]

startPollingFallback(s) ==
    IF s.useWebSocket THEN s ELSE pollEnter(s)

onConnect(s) ==
    [s EXCEPT !.useWebSocket = TRUE, !.gestureStatus = "ws", !.socket = "connected"]

\* mutant: the disconnect handler only clears the flag
onDisconnectNoFallback(s, next) ==
    [s EXCEPT !.useWebSocket = FALSE, !.socket = next, !.failedOver = TRUE]

onDisconnect(s, next) ==
    startPollingFallback(
        [s EXCEPT !.useWebSocket = FALSE, !.socket = next, !.failedOver = TRUE])

onConnectError(s) ==
    startPollingFallback(
        [s EXCEPT !.useWebSocket = FALSE, !.socket = "null", !.failedOver = TRUE])

startGesturePolling(s, ioDefined) ==
    IF ioDefined
    THEN [s EXCEPT !.started = TRUE, !.socket = "connecting"]
    ELSE startPollingFallback([s EXCEPT !.started = TRUE])

\* ------------------------------------------------------------- content feed
showDemoEvents(s) == [s EXCEPT !.events = ItemList(DemoCount)]

loadEvents(s, n) ==
    LET s1 == [s EXCEPT !.events = ItemList(n)]
    IN IF Len(s1.events) > 0 /\ s1.currentIndex = 0 THEN navigateTo(s1, 0) ELSE s1

initScrollBanner(s) ==
    LET s1 == [s EXCEPT !.configLoaded = TRUE]
    IN IF ~s1.lightMode THEN updateScrollBanner(s1, TRUE) ELSE s1

\* ------------------------------------------------------- keyboard and mouse
\* one key of each case of the handler ("a", "d" and " " are aliases), and one
\* key it ignores
Keys == {"Escape", "ArrowLeft", "ArrowRight", "Enter", "Home", "End", "x"}

onKeydown(s, key) ==
    IF s.showQR THEN (IF key = "Escape" THEN hideQR(s) ELSE s)
    ELSE IF s.showDetail THEN (IF key = "Escape" THEN hideDetail(s) ELSE s)
    ELSE CASE key \in {"ArrowLeft", "a"} -> navigateLeft(s)
           [] key \in {"ArrowRight", "d"} -> navigateRight(s)
           [] key \in {"Enter", " "} ->
                IF HasEvent(s, s.currentIndex)
                THEN ShowDetail(s, EventAt(s, s.currentIndex)) ELSE s
           [] key = "Home" -> navigateTo(s, 0)
           [] key = "End" -> navigateTo(s, Len(s.events) - 1)
           [] OTHER -> s

onWheel(s, forward) ==
    IF s.showDetail \/ s.showQR THEN s
    ELSE IF forward THEN navigateRight(s) ELSE navigateLeft(s)

\* diffX > 0 is a swipe to the right
onTouchEnd(s, swipe) ==
    IF s.showDetail \/ s.showQR THEN s
    ELSE CASE swipe = "right" -> navigateLeft(s)
           [] swipe = "left" -> navigateRight(s)
           [] OTHER -> s

onNavZoneClick(s, side) ==
    IF side = "left" THEN navigateLeft(s) ELSE navigateRight(s)

onCardClick(s, index) ==
    IF index = s.currentIndex THEN ShowDetail(s, EventAt(s, index))
    ELSE navigateTo(s, index)

onNavDotClick(s, i) == navigateTo(s, i)

\* ------------------------------------------------------------------ initial
Init ==
    /\ events = <<>>
    /\ currentIndex = 0
    /\ showDetail = FALSE
    /\ showQR = FALSE
    /\ qrCountdown = 0
    /\ qrInterval = FALSE
    /\ lastAction = "idle"
    /\ lightMode = FALSE
    /\ timeUntilDark = 0
    /\ useWebSocket = FALSE
    /\ faceDetected = FALSE
    /\ faceCount = 0
    /\ bannerVisible = FALSE
    /\ captureVisible = FALSE
    /\ openHandVisible = FALSE
    /\ gestureStatus = "init"
    /\ started = FALSE
    /\ configLoaded = FALSE
    /\ socket = "null"
    /\ pollInFlight = 0
    /\ pollTimers = 0
    /\ captureInFlight = 0
    /\ qrTimers = 0
    /\ lastSync = -1
    /\ qrTicks = 0
    /\ failedOver = FALSE
    /\ source = "none"
    /\ sourceGen = 0
    /\ snapshots = [k \in SnapshotKeys |-> 0]
    /\ handledGen = -1
    /\ frameGen = -1
    /\ syncs = 0
    /\ themeToggled = FALSE
    /\ syncPending = [i \in SyncIndexes |-> 0]
    /\ remoteIndex = -1
    /\ syncLost = FALSE
    /\ twin = TwinInit
    /\ heldDispatched = FALSE
    /\ lastFrame = "nil"
    /\ frameSeen = "no"
    /\ dispatched = "none"
    /\ deliveredBy = "none"
    /\ deliveredInPush = FALSE
    /\ frameIn = NoFrame

\* an action takes the step a handler computes, while the bounds allow it
Step(r) == WithinBounds(r) /\ Commit(r)

\* ------------------------------------------------------------------ actions
\* The DOMContentLoaded handler starts loadConfig and loadEvents, runs
\* startGesturePolling and registers the mouse and keyboard listeners; every
\* other event follows it.

\* DOMContentLoaded: the Socket.IO library is loaded (io defined) or is not
StartGesturePolling(ioDefined) ==
    /\ ~started
    /\ Step(startGesturePolling(Cur, ioDefined))

\* socket 'connect': the handshake, or a reconnection attempt, succeeded
Connect ==
    /\ socket \in {"connecting", "reconnecting"}
    /\ Step(onConnect(Cur))

\* socket 'disconnect': the client reconnects by itself unless the server closed
Disconnect ==
    /\ socket = "connected"
    /\ \E next \in {"reconnecting", "closed"} : Step(onDisconnect(Cur, next))

\* socket 'connect_error': the handshake, or a reconnection attempt, failed
ConnectError ==
    /\ socket \in {"connecting", "reconnecting"}
    /\ Step(onConnectError(Cur))

\* socket 'gesture': the server pushed frame g
GestureEvent(g) ==
    /\ socket = "connected"
    /\ Step(Deliver(Cur, g, "push"))

\* socket 'gesture' in the static variant
GestureEventStatic(g) ==
    /\ socket = "connected"
    /\ Step(DeliverStatic(Cur, g, "push"))

\* the service senses another action
SourceMoves(a) ==
    /\ started
    /\ a # source
    /\ sourceGen < MaxMoves
    /\ Step([Cur EXCEPT !.source = a, !.sourceGen = @ + 1,
                        !.heldDispatched = FALSE])

\* socket 'gesture': the service pushes the frame of what it senses
PushFrame ==
    /\ socket = "connected"
    /\ Step(Stamp(Deliver(Cur, SourceFrame(source), "push"), sourceGen))

\* the service answers a GET /api/gesture with what it senses at that moment
PollAnswered ==
    /\ pollInFlight > InTransit(Cur)
    /\ Step([Cur EXCEPT !.snapshots[<<source, sourceGen>>] = @ + 1])

\* an answer reaches the page: poll() resumes with the frame it carries
PollArrives(a, n) ==
    /\ snapshots[<<a, n>>] > 0
    /\ Step(Stamp(pollResponse([Cur EXCEPT !.snapshots[<<a, n>>] = @ - 1],
                               SourceFrame(a)), n))

\* GET /api/gesture answered with frame g
PollResponse(g) ==
    /\ pollInFlight > 0
    /\ Step(pollResponse(Cur, g))

\* GET /api/gesture failed
PollFailure ==
    /\ pollInFlight > 0
    /\ Step(pollFailure(Cur))

\* a setTimeout(poll) timer fires
PollTimerFire ==
    /\ pollTimers > 0
    /\ Step(pollEnter([Cur EXCEPT !.pollTimers = @ - 1]))

\* GET /api/events answered with n items (the refresh timer keeps one pending)
LoadEventsResponse(n) ==
    /\ started
    /\ Step(loadEvents(Cur, n))

\* GET /api/events failed
LoadEventsError ==
    /\ started
    /\ Step(showDemoEvents(Cur))

\* GET /api/config answered, or failed: both paths end in initScrollBanner
LoadConfig ==
    /\ started
    /\ ~configLoaded
    /\ Step(initScrollBanner(Cur))

\* POST /api/capture answered, with data.success or without (or failed)
CaptureResponse(success) ==
    /\ captureInFlight > 0
    /\ Step(captureDone(Cur, success))

\* the countdown interval fires
QRTick ==
    /\ qrTimers > 0
    /\ Step(qrTick(Cur))

Keydown(key) ==
    /\ started
    /\ Step(onKeydown(Cur, key))

Wheel(forward) ==
    /\ started
    /\ Step(onWheel(Cur, forward))

TouchEnd(swipe) ==
    /\ started
    /\ Step(onTouchEnd(Cur, swipe))

NavZoneClick(side) ==
    /\ started
    /\ Step(onNavZoneClick(Cur, side))

\* the cards and the dots are rendered from state.events
CardClick(index) ==
    /\ started
    /\ HasEvent(Cur, index)
    /\ Step(onCardClick(Cur, index))

NavDotClick(i) ==
    /\ started
    /\ HasEvent(Cur, i)
    /\ Step(onNavDotClick(Cur, i))

\* the close button of the detail panel, or a click beside the panel
DetailCloseClick ==
    /\ started
    /\ Step(hideDetail(Cur))

QROverlayClick ==
    /\ started
    /\ Step(hideQR(Cur))

\* a step whose position-sync requests are followed to their outcome
TrackedStep(r) ==
    /\ PendingSyncs(Sent(r)) <= MaxSyncs
    /\ Step(Sent(r))

TrackedGesture(g) ==
    /\ socket = "connected"
    /\ TrackedStep(Deliver(Cur, g, "push"))

TrackedKeydown(key) ==
    /\ started
    /\ TrackedStep(onKeydown(Cur, key))

TrackedLoadEvents(n) ==
    /\ started
    /\ TrackedStep(loadEvents(Cur, n))

\* POST /api/set_index failed
SyncFailed(i) ==
    /\ syncPending[i] > 0
    /\ Step(syncFailed(Cur, i))

\* POST /api/set_index answered
SyncAcked(i) ==
    /\ syncPending[i] > 0
    /\ Step(syncAcked(Cur, i))

\* the same frame reaches both variants
TwinGesture(g) ==
    /\ socket = "connected"
    /\ Step([handleGesture(Cur, g) EXCEPT !.twin = handleGestureStatic(TwinCur, g)])

\* POST /api/capture answers both variants alike
TwinCaptureResponse(success) ==
    /\ captureInFlight > 0 \/ twin.captureInFlight > 0
    /\ Step([(IF captureInFlight > 0 THEN captureDone(Cur, success) ELSE Cur)
                EXCEPT !.twin = IF twin.captureInFlight > 0
                                THEN captureDoneStatic(TwinCur, success)
                                ELSE TwinCur])

\* a second passes on both pages
TwinQRTick ==
    /\ qrTimers > 0 \/ twin.qrTimers > 0
    /\ Step([(IF qrTimers > 0 THEN qrTick(Cur) ELSE Cur)
                EXCEPT !.twin = IF twin.qrTimers > 0 THEN qrTickStatic(TwinCur)
                                ELSE TwinCur])

\* GET /api/events answers both variants with the same n items
TwinLoadEvents(n) ==
    /\ started
    /\ Step([loadEvents(Cur, n) EXCEPT !.twin = loadEvents(TwinCur, n)])

\* GET /api/events fails for both variants
TwinLoadEventsError ==
    /\ started
    /\ Step([showDemoEvents(Cur) EXCEPT !.twin = showDemoEvents(TwinCur)])

\* window.VitrineApp.navigateTo(i), the debugging export, with any i
ExportNavigateTo(i) ==
    /\ started
    /\ Step(navigateTo(Cur, i))

PointerInput ==
    \/ \E forward \in BOOLEAN : Wheel(forward)
    \/ \E swipe \in {"left", "right", "none"} : TouchEnd(swipe)
    \/ \E side \in {"left", "right"} : NavZoneClick(side)
    \/ \E index \in 0..(MaxItems - 1) : CardClick(index)
    \/ \E i \in 0..(MaxItems - 1) : NavDotClick(i)
    \/ DetailCloseClick
    \/ QROverlayClick

ContentAndTimers ==
    \/ \E n \in 0..MaxItems : LoadEventsResponse(n)
    \/ LoadEventsError
    \/ LoadConfig
    \/ \E success \in BOOLEAN : CaptureResponse(success)
    \/ QRTick

\* ----------------------------------------------------------- specifications
\* the whole program
Next ==
    \/ \E ioDefined \in BOOLEAN : StartGesturePolling(ioDefined)
    \/ Connect
    \/ Disconnect
    \/ ConnectError
    \/ \E g \in Frames : GestureEvent(g)
    \/ \E g \in Frames : PollResponse(g)
    \/ PollFailure
    \/ PollTimerFire
    \/ ContentAndTimers
    \/ \E key \in Keys : Keydown(key)
    \/ PointerInput
    \/ \E i \in -1..MaxItems : ExportNavigateTo(i)

Spec == Init /\ [][Next]_vars

\* the action switch, the overlays and the navigation, with the push channel up
NextUI ==
    \/ StartGesturePolling(TRUE)
    \/ Connect
    \/ \E g \in UIFrames : GestureEvent(g)
    \/ ContentAndTimers
    \/ \E key \in Keys : Keydown(key)
    \/ PointerInput

SpecUI == Init /\ [][NextUI]_vars

\* the same, with navigateTo also called through the debugging export
NextNav ==
    \/ NextUI
    \/ \E i \in -1..MaxItems : ExportNavigateTo(i)

SpecNav == Init /\ [][NextNav]_vars

\* the two transports and the switches between them
NextTransport ==
    \/ \E ioDefined \in BOOLEAN : StartGesturePolling(ioDefined)
    \/ Connect
    \/ Disconnect
    \/ ConnectError
    \/ \E g \in TransportFrames : GestureEvent(g)
    \/ \E g \in TransportFrames : PollResponse(g)
    \/ PollFailure
    \/ PollTimerFire

SpecTransport == Init /\ [][NextTransport]_vars

\* the theme, driven by frames, with the banner and the detail panel beside it
NextTheme ==
    \/ StartGesturePolling(TRUE)
    \/ Connect
    \/ \E g \in ThemeFrames : GestureEvent(g)
    \/ \E n \in 0..MaxItems : LoadEventsResponse(n)
    \/ LoadConfig
    \/ \E key \in {"Enter", "Escape"} : Keydown(key)

SpecTheme == Init /\ [][NextTheme]_vars

\* the two transports fed by one sensing service
NextSource ==
    \/ \E ioDefined \in BOOLEAN : StartGesturePolling(ioDefined)
    \/ Connect
    \/ Disconnect
    \/ ConnectError
    \/ \E a \in SourceActions : SourceMoves(a)
    \/ PushFrame
    \/ PollAnswered
    \/ \E a \in SourceActions, n \in 0..MaxMoves : PollArrives(a, n)
    \/ PollTimerFire
    \/ LoadEventsError

SpecSource == Init /\ [][NextSource]_vars

\* static/shop_carousel.js handling frames
NextStatic ==
    \/ StartGesturePolling(TRUE)
    \/ Connect
    \/ \E g \in StaticFrames : GestureEventStatic(g)
    \/ \E n \in 0..MaxItems : LoadEventsResponse(n)

SpecStatic == Init /\ [][NextStatic]_vars

\* captures and the countdown of the Capture overlay; a live interval timer
\* keeps firing
NextCapture ==
    \/ StartGesturePolling(TRUE)
    \/ Connect
    \/ \E g \in CaptureFrames : GestureEvent(g)
    \/ \E success \in BOOLEAN : CaptureResponse(success)
    \/ QRTick
    \/ Keydown("Escape")
    \/ QROverlayClick

SpecCapture == Init /\ [][NextCapture]_vars /\ WF_vars(QRTick)

\* navigation with its position-sync requests on the network
NextSync ==
    \/ StartGesturePolling(TRUE)
    \/ Connect
    \/ \E g \in NavFrames : TrackedGesture(g)
    \/ \E key \in {"ArrowLeft", "ArrowRight", "Home", "End"} : TrackedKeydown(key)
    \/ \E n \in 0..MaxItems : TrackedLoadEvents(n)
    \/ \E i \in SyncIndexes : SyncFailed(i)
    \/ \E i \in SyncIndexes : SyncAcked(i)

SpecSync == Init /\ [][NextSync]_vars

\* the two overlays, opened and closed by every path, over the demo items
NextOverlay ==
    \/ NextCapture
    \/ \E g \in OverlayFrames : GestureEvent(g)
    \/ LoadEventsError
    \/ Keydown("Enter")
    \/ DetailCloseClick

SpecOverlay == Init /\ [][NextOverlay]_vars

\* commands arriving while an overlay is open, and after it has closed
NextDrop ==
    \/ NextCapture
    \/ \E g \in DropFrames : GestureEvent(g)
    \/ LoadEventsError
    \/ DetailCloseClick

SpecDrop == Init /\ [][NextDrop]_vars

\* every action and the fist, handled around the two overlays
NextGestures ==
    \/ NextOverlay
    \/ \E g \in UIFrames : GestureEvent(g)

SpecGestures == Init /\ [][NextGestures]_vars

\* the two variants side by side on the same inputs
NextTwin ==
    \/ StartGesturePolling(TRUE)
    \/ Connect
    \/ \E g \in TwinFrames : TwinGesture(g)
    \/ \E success \in BOOLEAN : TwinCaptureResponse(success)
    \/ TwinQRTick
    \/ \E n \in 0..MaxItems : TwinLoadEvents(n)
    \/ TwinLoadEventsError

SpecTwin == Init /\ [][NextTwin]_vars

\* the hold-progress indicators beside the two overlays
NextProgress ==
    \/ NextCapture
    \/ \E g \in ProgressFrames : GestureEvent(g)
    \/ LoadEventsError

SpecProgress == Init /\ [][NextProgress]_vars

\* the banner under theme changes, the detail panel and the Capture overlay
NextBanner ==
    \/ NextTheme
    \/ NextCapture

SpecBanner == Init /\ [][NextBanner]_vars

\* ==================================================================== claims
InRange == currentIndex \in 0..(Len(events) - 1)

\* C1: in every reachable state the Detail overlay and the Capture/QR overlay
\* are not both open.
C1_OverlaysExclusive == ~(showDetail /\ showQR)

\* C2: a frame whose action equals the action of the frame handled immediately
\* before it dispatches no command; a command is dispatched only by a frame whose
\* action differs from the previous frame's.
C2_DispatchOnlyOnEdge ==
    /\ frameSeen = "same" => dispatched = "none"
    /\ dispatched # "none" => frameSeen = "changed" /\ dispatched = lastFrame

\* C2 witness: a second nav_left frame in a row has been handled and nothing was
\* dispatched, the first one having moved the index.
C2_RepeatedFrameHandled ==
    /\ frameSeen = "same"
    /\ lastFrame = "nav_left"
    /\ dispatched = "none"
    /\ currentIndex = 1

\* C3: no frame obtained by a poll request is handed to handleGesture while
\* push mode is active (useWebSocket = TRUE).
C3_NoPollFrameInPushMode == ~(deliveredBy = "poll" /\ deliveredInPush)

\* C4: once startGesturePolling has run, exactly one of pushActive (useWebSocket)
\* and pollActive (a poll request in flight or a poll timer pending) is true.
C4_ExactlyOneTransport ==
    started => (useWebSocket <=> ~(pollInFlight + pollTimers > 0))

\* C5: at most one poll request is in flight and at most one poll timer is
\* pending at any time.
C5_NoOverlappingPolls == pollInFlight <= 1 /\ pollTimers <= 1

\* C6: a step that ends with the push channel connected issues no poll request
\* and schedules no poll timer.
C6_NoPollWhilePushConnected ==
    [][socket' = "connected" =>
          pollInFlight' <= pollInFlight /\ pollTimers' <= pollTimers]_vars

\* C6 witness: a poll response has just been handled with the push channel
\* connected, and the loop stopped: no request in flight, no timer pending.
C6_PollLoopStopped ==
    /\ socket = "connected"
    /\ useWebSocket
    /\ deliveredBy = "poll"
    /\ pollInFlight = 0
    /\ pollTimers = 0

\* C7: the step of a connect_error, or of a disconnect of the established
\* channel, sets useWebSocket to FALSE and issues a poll request.
C7_FailoverPollsAtOnce ==
    [][(\/ socket = "connected" /\ socket' # "connected"
        \/ socket \in {"connecting", "reconnecting"} /\ socket' = "null")
       => ~useWebSocket' /\ pollInFlight' = pollInFlight + 1]_vars

\* C7 witness: the established channel has just dropped (the status text still
\* reads 'WS Connected') and the first poll request is already in flight.
C7_FailedOver ==
    /\ socket = "reconnecting"
    /\ gestureStatus = "ws"
    /\ ~useWebSocket
    /\ pollInFlight = 1
    /\ pollTimers = 0

\* C8: with at least one item and the item list unchanged by the step, an index
\* within [0, n-1] stays within [0, n-1].
C8_IndexStaysInRange ==
    [][(Len(events) >= 1 /\ events' = events /\ InRange) => InRange']_vars

\* C8 witness: navigation has reached the last of MaxItems items and reported it.
C8_AtLastItem ==
    /\ Len(events) = MaxItems
    /\ currentIndex = MaxItems - 1
    /\ lastSync = currentIndex

\* C9: in every reachable state 0 <= currentIndex < events.length, or
\* currentIndex = 0 when the list is empty.
C9_IndexValid ==
    IF Len(events) = 0 THEN currentIndex = 0 ELSE InRange

\* C10: with no overlay open and at least one item, a nav_left edge moves
\* currentIndex by +1, clamped at itemCount-1, and a nav_right edge by -1,
\* clamped at 0.
C10_EdgeMovesByOne ==
    [][(~showDetail /\ ~showQR /\ Len(events) >= 1) =>
          /\ dispatched' = "nav_left" =>
                currentIndex' = Min(currentIndex + 1, Len(events) - 1)
          /\ dispatched' = "nav_right" =>
                currentIndex' = Max(currentIndex - 1, 0)]_vars

\* C11: a capture command dispatched while the Detail overlay is open is refused:
\* the step sends no capture request, so none can open the Capture overlay over
\* the Detail panel.
C11_CaptureRefusedInDetail ==
    [][(showDetail /\ dispatched' = "capture") =>
          captureInFlight' = captureInFlight]_vars

\* C12: while the Capture overlay is active (showQR true), no step opens the
\* Detail overlay: a detail action edge, the Enter or Space key and a click on
\* the current card all leave showDetail false.
C12_DetailRefusedInCapture ==
    [][(showQR /\ ~showDetail) => ~showDetail']_vars

\* C13: after handleGesture has processed a frame with is_fist true, the Detail
\* overlay is closed, whatever the frame's action, the previous lastAction and
\* the state of the Capture overlay.
C13_FistClosesDetail ==
    (frameSeen # "no" /\ frameIn.is_fist) => ~showDetail

\* C13 witness: a fist frame that is no edge (it repeats the detail action of
\* the frame before it, nothing dispatched) has been handled with an item under
\* the index, and the panel is closed: the banner hideDetail brings back shows.
C13_FistWithoutEdge ==
    /\ frameSeen = "same"
    /\ frameIn.is_fist
    /\ dispatched = "none"
    /\ lastAction = "detail"
    /\ HasEvent(Cur, currentIndex)
    /\ ~showQR
    /\ ~showDetail
    /\ bannerVisible
    /\ ~configLoaded

\* C14: a countdown timer is pending if and only if the Capture overlay is open,
\* and at most one countdown timer exists: once hideQR has run no timer is left
\* to tick, and opening the overlay again replaces the previous timer.
C14_OneTimerIffCaptureOpen ==
    /\ qrTimers = (IF showQR THEN 1 ELSE 0)
    /\ qrInterval <=> showQR

\* C14 witness: the overlay was closed by hand three ticks into its countdown
\* (the count stopped at QR_DISPLAY_TIME - 3), and no timer is left.
C14_ClosedByHand ==
    /\ ~showQR
    /\ qrCountdown = QR_DISPLAY_TIME - 3
    /\ qrTimers = 0
    /\ ~qrInterval

\* C15: showQR sets qrCountdown to QR_DISPLAY_TIME; each tick takes exactly 1
\* off it and the tick that brings it to 0 closes the overlay; so, the timer
\* firing fairly, an open Capture overlay is eventually closed, and the countdown
\* closes it exactly QR_DISPLAY_TIME ticks after showQR opened it.
C15_CountdownCloses ==
    /\ [](showQR => qrCountdown >= 1 /\ qrCountdown + qrTicks = QR_DISPLAY_TIME)
    /\ [][(~showQR /\ showQR') =>
             qrCountdown' = QR_DISPLAY_TIME /\ qrTicks' = 0]_vars
    /\ [][qrTicks' = qrTicks + 1 =>
             /\ qrCountdown' = qrCountdown - 1
             /\ showQR' <=> qrCountdown' > 0
             /\ ~showQR' => qrTicks' = QR_DISPLAY_TIME]_vars
    /\ (showQR ~> ~showQR)

\* C15 witness: the countdown has run out and its last tick, the
\* QR_DISPLAY_TIME-th since the overlay opened, has closed the overlay.
C15_CountdownExpired ==
    /\ ~showQR
    /\ qrCountdown = 0
    /\ qrTicks = QR_DISPLAY_TIME
    /\ qrTimers = 0

C17_StaticHandGivesLight ==
    (frameSeen # "no" /\ frameIn.hand_detected) => lightMode

\* C18: a failed poll request hands no frame to handleGesture and changes
\* nothing but the status indicator (the action, navigation, overlay and theme
\* state keep their values), and while push is inactive the loop schedules its
\* next request.
C18_FailedPollOnlyStatus ==
    [][PollFailure =>
          /\ frameSeen' = "no" /\ deliveredBy' = "none"
          /\ UNCHANGED <<events, currentIndex, lastAction, lastFrame, showDetail,
                         showQR, qrCountdown, qrTimers, captureInFlight,
                         lightMode, timeUntilDark, bannerVisible, useWebSocket,
                         socket>>
          /\ pollInFlight' = pollInFlight - 1
          /\ ~useWebSocket => pollTimers' = pollTimers + 1]_vars

\* C18 witness: a poll request has failed with push inactive (the status reads
\* 'Mouse mode') after a frame had been handled, and the next request is
\* scheduled.
C18_FailedAndRescheduled ==
    /\ gestureStatus = "mouse"
    /\ frameSeen = "no"
    /\ lastFrame = "nav_left"
    /\ ~useWebSocket
    /\ pollInFlight = 0
    /\ pollTimers = 1

\* C19: once a disconnect or connect_error event has occurred, in every later
\* state where push is inactive (useWebSocket false) a poll loop is alive: a
\* poll request is in flight or a poll timer is pending.
C19_PollAliveAfterFailover ==
    (failedOver /\ ~useWebSocket) => pollInFlight + pollTimers > 0

\* C19 witness: the channel was re-established and then closed by the server;
\* polling runs again and has handled a frame, its next request is scheduled.
C19_PollingAfterClose ==
    /\ failedOver
    /\ socket = "closed"
    /\ ~useWebSocket
    /\ deliveredBy = "poll"
    /\ ~deliveredInPush
    /\ pollInFlight = 0
    /\ pollTimers = 1

\* C20: across the switches between push and poll delivery a gesture held at
\* the source (its action unchanged there) is dispatched once: after it has been
\* dispatched, no later step dispatches it again while the source still holds it.
C20_HeldGestureDispatchedOnce ==
    [][(heldDispatched /\ source' = source) => dispatched' # source]_vars

\* C21: frames are handled in the order the source produced them: the frame a
\* step handles was not sensed before a frame that has been handled already.
C21_FramesInSourceOrder ==
    frameGen # -1 => frameGen = handledGen

\* C22: a nav_left or nav_right action edge handled while the Detail or the
\* Capture overlay is open leaves currentIndex unchanged and issues no
\* position-sync request.
C22_NoGestureNavUnderOverlay ==
    [][(dispatched' \in {"nav_left", "nav_right"} /\ (showDetail \/ showQR)) =>
          currentIndex' = currentIndex /\ syncs' = 0]_vars

\* C22 witness: a nav_left edge has been handled under the Capture overlay with
\* an item to the right of the index, and the index has not moved.
C22_NavEdgeUnderCapture ==
    /\ dispatched = "nav_left"
    /\ showQR
    /\ ~showDetail
    /\ Len(events) >= 2
    /\ currentIndex = 0
    /\ syncs = 0

\* C23: the scroll banner is visible only when no overlay is open and the mode
\* is dark; and a step that closes the Capture overlay in dark mode with the
\* Detail overlay closed makes the banner visible.
C23_BannerOnlyInDarkIdle ==
    /\ [](bannerVisible => ~showQR /\ ~showDetail /\ ~lightMode)
    /\ [][(showQR /\ ~showQR' /\ ~lightMode' /\ ~showDetail') => bannerVisible']_vars

\* C23 witness: the countdown has closed the Capture overlay in dark mode, the
\* Detail overlay is closed, and the banner is visible (the configuration, which
\* also shows it, has not been loaded).
C23_BannerBackAfterCapture ==
    /\ bannerVisible
    /\ ~showQR
    /\ qrTicks = QR_DISPLAY_TIME
    /\ ~showDetail
    /\ ~lightMode
    /\ ~configLoaded
    /\ frameSeen = "no"

\* C24: each step that changes currentIndex issues one position-sync request
\* carrying the new index, so the most recently issued sync request carries the
\* current value of currentIndex.
C24_IndexChangeReported ==
    /\ [][currentIndex' # currentIndex =>
             syncs' = 1 /\ lastSync' = currentIndex']_vars
    /\ [](lastSync # -1 => lastSync = currentIndex)

\* C24 witness: a nav_left edge has moved the index to the second item and the
\* step has sent one request carrying it.
C24_MoveReported ==
    /\ dispatched = "nav_left"
    /\ currentIndex = 1
    /\ syncs = 1
    /\ lastSync = 1

\* C25: a failed position-sync request leaves all local state unchanged
\* (currentIndex is not rolled back, no request is issued again), and requests
\* still awaiting their outcome block neither navigation nor frame handling.
C25_SyncFailureHarmless ==
    /\ [][(\E i \in SyncIndexes : SyncFailed(i)) =>
             /\ UNCHANGED <<events, currentIndex, lastAction, showDetail, showQR,
                            qrCountdown, lightMode, lastSync, useWebSocket,
                            remoteIndex>>
             /\ syncs' = 0
             /\ PendingSyncs([syncPending |-> syncPending']) =
                    PendingSyncs([syncPending |-> syncPending]) - 1]_vars
    /\ []((/\ socket = "connected"
           /\ PendingSyncs([syncPending |-> syncPending]) \in 1..(MaxSyncs - 1)
           /\ currentIndex < Len(events) - 1)
          => /\ ENABLED (/\ TrackedKeydown("ArrowRight")
                         /\ currentIndex' = currentIndex + 1)
             /\ ENABLED (/\ \E g \in NavFrames : TrackedGesture(g)
                         /\ frameSeen' # "no"))

\* C25 witness: every request sent so far has failed (the server holds no
\* index); the index stands on the third item, where navigation took it while a
\* request was pending, and nothing is sent again.
C25_AllSyncsFailed ==
    /\ remoteIndex = -1
    /\ currentIndex = 2
    /\ lastSync = 2
    /\ PendingSyncs([syncPending |-> syncPending]) = 0
    /\ syncs = 0

\* C26: a failed capture request (success flag false, or a network error)
\* leaves the overlay state unchanged: showQR keeps its value (stays false), no
\* countdown timer is started, qrCountdown and showDetail keep their values, and
\* no request is issued again.
C26_CaptureFailureHarmless ==
    [][CaptureResponse(FALSE) =>
          /\ UNCHANGED <<showQR, qrCountdown, qrTimers, qrInterval, qrTicks,
                         showDetail, currentIndex, lastAction, bannerVisible>>
          /\ captureInFlight' = captureInFlight - 1]_vars

\* C26 witness: the one capture requested, with the Detail panel open, has
\* failed: nothing is in flight and the Capture overlay has never opened.
C26_CaptureFailed ==
    /\ lastAction = "capture"
    /\ frameSeen = "no"
    /\ captureInFlight = 0
    /\ ~showQR
    /\ qrCountdown = 0
    /\ qrTicks = 0
    /\ qrTimers = 0
    /\ showDetail

\* C27: after every frame handled by handleGesture, the thumbs-up progress
\* indicator is visible iff the frame has is_thumbs_up and thumbs_up_progress > 0,
\* and the open-hand indicator is visible iff the frame has is_open_hand,
\* open_hand_progress > 0 and Detail is closed, whatever overlay is open.
C27_IndicatorsFollowFrame ==
    frameSeen # "no" =>
        /\ captureVisible <=>
              (frameIn.is_thumbs_up /\ frameIn.thumbs_up_progress > 0)
        /\ openHandVisible <=>
              (frameIn.is_open_hand /\ frameIn.open_hand_progress > 0 /\ ~showDetail)

\* C28: after each handled frame timeUntilDark equals the frame's
\* time_until_dark; a step that handles no frame changes neither lightMode nor
\* timeUntilDark; and the mode-and-banner switch of updateThemeMode runs on
\* exactly the frames that change lightMode.
C28_ThemeDrivenByFrames ==
    /\ [](frameSeen # "no" => timeUntilDark = frameIn.time_until_dark)
    /\ [][frameSeen' = "no" =>
             UNCHANGED <<lightMode, timeUntilDark>> /\ ~themeToggled']_vars
    /\ [][frameSeen' # "no" =>
             (themeToggled' <=>
                 lightMode # (\/ frameIn'.hand_detected
                              \/ frameIn'.time_until_dark > 0 /\ frameIn'.light_mode))]_vars

\* C28 witness: a frame with time left and the light hint has switched a dark
\* page to light mode while the Capture overlay is open.
C28_SwitchedToLight ==
    /\ frameSeen # "no"
    /\ themeToggled
    /\ lightMode
    /\ ~frameIn.hand_detected
    /\ frameIn.time_until_dark = MaxDark
    /\ timeUntilDark = MaxDark
    /\ showQR

\* C29: closing the Detail overlay when it is not open (by its close button or
\* by a detail_close edge) changes no overlay, navigation or timer state; a step
\* that closes Detail changes neither showQR, qrCountdown nor the countdown
\* timer; and hideQR, open or not, never changes showDetail.
C29_ClosingIsSeparate ==
    [][/\ (~showDetail /\ (DetailCloseClick \/ dispatched' = "detail_close")) =>
              UNCHANGED <<showDetail, showQR, qrCountdown, qrTimers, qrInterval,
                          currentIndex, lastSync>>
       /\ (DetailCloseClick \/ dispatched' = "detail_close"
                            \/ (showDetail /\ ~showDetail')) =>
              UNCHANGED <<showQR, qrCountdown, qrTimers, qrInterval>>
       /\ (QROverlayClick \/ (showQR /\ ~showQR')) =>
              UNCHANGED <<showDetail, currentIndex>> /\ ~showQR' /\ qrTimers' = 0]_vars

\* C29 witness: a detail_close edge has been handled under the Capture overlay
\* three ticks into its countdown; the overlay and its timer are as they were.
C29_DetailClosedUnderCapture ==
    /\ dispatched = "detail_close"
    /\ ~showDetail
    /\ showQR
    /\ qrCountdown = QR_DISPLAY_TIME - 3
    /\ qrTimers = 1

\* C30: whenever the Detail overlay is opened while a QR countdown timer is
\* pending, the step that opens it leaves no countdown timer pending (so the
\* timer cannot fire afterwards).
C30_DetailOpenCancelsCountdown ==
    [][(qrTimers > 0 /\ ~showDetail /\ showDetail') => qrTimers' = 0]_vars

\* C31: after every frame lastAction is the frame's action, whether or not the
\* command's guard let it through; and a frame whose action is the one already
\* recorded dispatches nothing: it does not navigate, open the Detail overlay or
\* request a capture, whatever overlay has closed in between.
C31_RefusedCommandDropped ==
    /\ [](frameSeen # "no" => lastAction = frameIn.action)
    /\ [][(frameSeen' # "no" /\ frameIn'.action = lastAction) =>
              /\ UNCHANGED <<currentIndex, captureInFlight, lastSync, lastAction>>
              /\ showDetail' => showDetail
              /\ dispatched' = "none"
              /\ syncs' = 0]_vars

\* C31 witness: nav_left arrives again after the Capture overlay has closed (one
\* tick into its countdown); with two items and no overlay open the index has
\* not moved and no position was ever reported.
C31_HeldAfterOverlayClosed ==
    /\ frameSeen = "same"
    /\ lastAction = "nav_left"
    /\ ~showQR /\ ~showDetail
    /\ qrTicks = 1
    /\ Len(events) = 2
    /\ currentIndex = 0
    /\ lastSync = -1

\* C32: at most one capture request is outstanding at any time.
C32_OneCaptureOutstanding == captureInFlight <= 1

\* C33: while the Capture overlay is open its countdown is between 1 and
\* QR_DISPLAY_TIME, and the countdown is never negative.
C33_CountdownInRange ==
    /\ showQR => (1 <= qrCountdown /\ qrCountdown <= QR_DISPLAY_TIME)
    /\ qrCountdown >= 0

\* C33 witness: the overlay is open on the last second of its countdown.
C33_LastSecond ==
    /\ showQR
    /\ qrCountdown = 1
    /\ qrTicks = QR_DISPLAY_TIME - 1
    /\ qrTimers = 1

\* C34: a frame handled while the Capture overlay is open leaves showQR,
\* qrCountdown and the countdown timer unchanged, and the only steps that close
\* the Capture overlay are a countdown tick, a click on the overlay and the
\* Escape key.
C34_FramesLeaveCapture ==
    /\ [][(showQR /\ frameSeen' # "no") =>
              UNCHANGED <<showQR, qrCountdown, qrTimers, qrInterval, qrTicks>>]_vars
    /\ [][(showQR /\ ~showQR') =>
              (QRTick \/ QROverlayClick \/ Keydown("Escape"))]_vars

\* C34 witness: a fist frame carrying detail_close has been handled under the
\* Capture overlay, three ticks into its countdown.
C34_FistUnderCapture ==
    /\ frameSeen = "changed"
    /\ frameIn.is_fist
    /\ frameIn.action = "detail_close"
    /\ showQR
    /\ qrCountdown = QR_DISPLAY_TIME - 3
    /\ qrTicks = 3
    /\ qrTimers = 1

\* C35: while the Capture overlay is open, no step of an input handler
\* (keyboard, wheel, touch, nav zones, nav dots, cards) changes currentIndex.
C35_InputFrozenUnderCapture ==
    [][(showQR /\ (PointerInput \/ \E key \in Keys : Keydown(key))) =>
          currentIndex' = currentIndex]_vars

\* C36: once every position-sync request sent has been answered and none has
\* failed, the index the remote store holds is the local currentIndex.
C36_RemoteFollowsLocal ==
    (/\ lastSync # -1
     /\ PendingSyncs([syncPending |-> syncPending]) = 0
     /\ ~syncLost)
    => remoteIndex = currentIndex

\* C37: run side by side on the same frames, capture responses, countdown
\* ticks and item lists, the two variants have equal lastAction, currentIndex,
\* showDetail, showQR and qrCountdown after every step.
C37_VariantsAgree ==
    /\ twin.lastAction = lastAction
    /\ twin.currentIndex = currentIndex
    /\ twin.showDetail = showDetail
    /\ twin.showQR = showQR
    /\ twin.qrCountdown = qrCountdown

\* C37 witness: the variants differ in theme (a hand in view switched this one
\* to light) and agree on a state reached by navigation to the second item
\* and a capture: the Capture overlay is open three ticks into its countdown.
C37_AgreeUnderDifferentThemes ==
    /\ lightMode /\ ~twin.lightMode
    /\ currentIndex = 1 /\ twin.currentIndex = 1
    /\ showQR /\ twin.showQR
    /\ qrCountdown = QR_DISPLAY_TIME - 3 /\ twin.qrCountdown = QR_DISPLAY_TIME - 3
    /\ lastAction = "detail" /\ twin.lastAction = "detail"

====
